---- MODULE Spec2Model ----
(***************************************************************************)
(* Model of agent-memory-vault: the interactive orchestrator (agent-app),  *)
(* the read-only scanner (agent-2), the HTTP service (mcp-memory-vault)    *)
(* and the MemoryVault ledger they share.                                  *)
(***************************************************************************)
EXTENDS Integers, Sequences, FiniteSets, TLC

\* ------------------------------------------------------------------------
\* Bounds
\* ------------------------------------------------------------------------
MaxTurns == 2        \* utterances the orchestrator accepts
MaxRequests == 2     \* HTTP requests the service handles
MaxScans == 1        \* utterances the scanner accepts
MaxToolCalls == 1    \* store_memory tool invocations by other agents
MaxInitRecords == 2  \* records per MemorySet already on the ledger at startup

\* ------------------------------------------------------------------------
\* Configuration (immutable after startup)
\* ------------------------------------------------------------------------
USER_ADDRESS == "0xUser"          \* config.USER_ADDRESS
OtherUser == "0xOther"            \* an owner only HTTP callers can name
account == "0xAgent"              \* the orchestrator's signing identity
serviceAccount == "0xService"     \* the HTTP service's signing identity
Owners == {USER_ADDRESS, OtherUser}

topics == <<"identity_profile", "preferences", "risk_profile">>
knownTopics == <<"identity_profile", "preferences", "risk_profile",
                 "user_identity", "personal_identity", "wallet_profile", "goals">>

Range(s) == {s[i] : i \in 1..Len(s)}
TopicUniverse == Range(knownTopics) \cup {"", "Preferences"}

\* ------------------------------------------------------------------------
\* topicHash = keccak256(stringToBytes(topic)); topicHashTable holds
\* keccak256(stringToBytes(t)) of every topic string t
\* ------------------------------------------------------------------------
stringToBytes(t) ==
  CASE t = "identity_profile" -> <<105, 100, 101, 110, 116, 105, 116, 121, 95, 112, 114, 111, 102, 105, 108, 101>>
    [] t = "preferences" -> <<112, 114, 101, 102, 101, 114, 101, 110, 99, 101, 115>>
    [] t = "risk_profile" -> <<114, 105, 115, 107, 95, 112, 114, 111, 102, 105, 108, 101>>
    [] t = "user_identity" -> <<117, 115, 101, 114, 95, 105, 100, 101, 110, 116, 105, 116, 121>>
    [] t = "personal_identity" -> <<112, 101, 114, 115, 111, 110, 97, 108, 95, 105, 100, 101, 110, 116, 105, 116, 121>>
    [] t = "wallet_profile" -> <<119, 97, 108, 108, 101, 116, 95, 112, 114, 111, 102, 105, 108, 101>>
    [] t = "goals" -> <<103, 111, 97, 108, 115>>
    [] t = "Preferences" -> <<80, 114, 101, 102, 101, 114, 101, 110, 99, 101, 115>>
    [] t = "" -> <<>>

\* A 16-bit polynomial digest stands in for the 256-bit Keccak digest.
HashWidth == 2 ^ 16
RECURSIVE Absorb(_, _)
Absorb(h, bytes) ==
  IF bytes = <<>> THEN h
  ELSE Absorb((h * 31 + Head(bytes)) % HashWidth, Tail(bytes))
keccak256(bytes) == Absorb(7, bytes)

topicHashTable == [t \in TopicUniverse |-> keccak256(stringToBytes(t))]
topicHash(topic) == topicHashTable[topic]
Keys == {topicHashTable[t] : t \in TopicUniverse}

\* the same derivation as written in agent-2, server.ts and tools.ts
topicHash2_OtherSpelling(topic) ==
  topicHashTable[IF topic = "preferences" THEN "Preferences" ELSE topic]
topicHash2(topic) == topicHashTable[topic]
topicHashServer(topic) == topicHashTable[topic]
topicHashTools_CaseFolded(topic) ==
  topicHashTable[IF topic = "Preferences" THEN "preferences" ELSE topic]
topicHashTools(topic) == topicHashTable[topic]

\* ------------------------------------------------------------------------
\* Outcomes of a call: a returned value or a raised exception
\* ------------------------------------------------------------------------
Ret(v) == [raised |-> FALSE, value |-> v]
Raise(e) == [raised |-> TRUE, error |-> e]

\* ------------------------------------------------------------------------
\* JavaScript / JSON values
\* ------------------------------------------------------------------------
JUndef == [type |-> "undefined"]
JNull == [type |-> "null"]
JBool(b) == [type |-> "boolean", b |-> b]
JStr(s) == [type |-> "string", s |-> s]
JNum(n) == [type |-> "number", n |-> n]
JArr == [type |-> "array"]
JChars(c) == [type |-> "chars", c |-> c]   \* a string held as its characters
JObj(ss, tp, sm, ex) ==
  [type |-> "object", should_store |-> ss, topic |-> tp, summary |-> sm, extra |-> ex]

Truthy(v) ==
  CASE v.type = "boolean" -> v.b
    [] v.type = "string" -> v.s # ""
    [] v.type = "number" -> v.n # 0
    [] v.type = "chars" -> v.c # <<>>
    [] v.type \in {"undefined", "null"} -> FALSE
    [] OTHER -> TRUE

\* ------------------------------------------------------------------------
\* State
\* ------------------------------------------------------------------------
VARIABLES
  ledger,      \* MemorySet of every (owner, topicKey): sequence of records
  txs,         \* every submitted storeMemoryFor transaction, by tx id
  asked,       \* per tx id: the owner and topic string its caller stored under
  now,         \* ledger block time
  proc,        \* the agent process: program launched, environment it was started in,
               \* status (starting, running, exited) and exit code
  pc,          \* orchestrator phase
  turn,        \* utterances accepted so far by the orchestrator
  msg,         \* the utterance of the current turn
  ti,          \* position in `topics` during Reading
  memories,    \* memories collected in the current turn
  reads,       \* per candidate topic read: the ledger's answer and what getLatestMemory returned
  replyArg,    \* memories answerUser was invoked with
  decideArg,   \* memories decideMemory was invoked with
  decision,    \* value returned by decideMemory
  llmText,     \* text the language model returned to decideMemory
  storeCalls,  \* writeContract calls issued in the current turn
  writeResult, \* what storeMemory did in the current turn: returned a tx id, or raised
  out,         \* orchestrator console output
  crashedIn,   \* phase in which an exception escaped main()
  req,         \* last HTTP request
  env,         \* under which the last request ran: keyOk (PRIVATE_KEY is well-formed),
               \* ok (the ledger call, if one is made, goes through)
  resp,        \* last HTTP response
  httpCalls,   \* ledger calls made while handling the last HTTP request
  nreq,        \* HTTP requests handled so far
  ntool,       \* store_memory tool invocations so far
  spc,         \* scanner position
  sturn,       \* utterances accepted so far by the scanner
  si,          \* position in knownTopics during fetchUserMemories
  count,       \* count read for the current topic
  i,           \* loop index within the current topic
  results,     \* fetchUserMemories' result list
  sreads       \* per topic already processed: "ok" or "failed", and the count read

ledgerVars == <<ledger, txs, asked, now>>
orchVars == <<pc, turn, msg, ti, memories, reads, replyArg, decideArg, decision, llmText,
              storeCalls, writeResult, out, crashedIn>>
httpVars == <<req, env, resp, httpCalls, nreq>>
toolVars == <<ntool>>
scanVars == <<spc, sturn, si, count, i, results, sreads>>
vars == <<ledger, txs, asked, now, proc, pc, turn, msg, ti, memories, reads, replyArg, decideArg,
          decision, llmText, storeCalls, writeResult, out, crashedIn, req, env, resp, httpCalls, nreq, ntool,
          spc, sturn, si, count, i, results, sreads>>

\* ------------------------------------------------------------------------
\* The MemoryVault ledger contract (ABI: storeMemoryFor, getLatestMemory,
\* getMemory, getMemoryCount)
\* ------------------------------------------------------------------------
Value(v) == [kind |-> "value", v |-> v]
NoData == [kind |-> "none"]
Revert == [kind |-> "revert"]

LedgerGetMemoryCount(L, user, key) == Value(Len(L[<<user, key>>]))
LedgerGetMemory(L, user, key, index) ==
  IF index < Len(L[<<user, key>>]) THEN Value(L[<<user, key>>][index + 1]) ELSE Revert
LedgerGetLatestMemory(L, user, key) ==
  IF L[<<user, key>>] = <<>> THEN NoData
  ELSE Value(L[<<user, key>>][Len(L[<<user, key>>])])
LedgerStoreMemoryFor_Overwrites(L, user, key, content, writer, timestamp) ==
  [L EXCEPT ![<<user, key>>] =
     <<[timestamp |-> timestamp, writer |-> writer, content |-> content]>>]
LedgerStoreMemoryFor(L, user, key, content, writer, timestamp) ==
  [L EXCEPT ![<<user, key>>] =
     Append(@, [timestamp |-> timestamp, writer |-> writer, content |-> content])]

\* publicClient.readContract: throws on a transport failure and on an answer
\* that carries no data; otherwise returns the decoded answer.
readContract(answer, ok) ==
  IF ~ok THEN Raise("transport")
  ELSE IF answer.kind # "value" THEN Raise(answer.kind)
  ELSE Ret(answer.v)

\* JavaScript Number(bigint)
Number(n) == n

\* ------------------------------------------------------------------------
\* agent-app: getLatestMemory, storeMemory
\* ------------------------------------------------------------------------
Null == [type |-> "null"]
Memory(topic, rec) ==
  [type |-> "memory", topic |-> topic, content |-> rec.content,
   timestamp |-> Number(rec.timestamp), writer |-> rec.writer]

getLatestMemory_ZeroRecord(topic, L, ok) ==
  LET hash == topicHash(topic)
      result == readContract(LedgerGetLatestMemory(L, USER_ADDRESS, hash), ok)
  IN IF result.raised
     THEN Ret(Memory(topic, [timestamp |-> 0, writer |-> "0x0", content |-> ""]))
     ELSE Ret(Memory(topic, result.value))

getLatestMemory_NoCatch(topic, L, ok) ==
  LET hash == topicHash(topic)
      result == readContract(LedgerGetLatestMemory(L, USER_ADDRESS, hash), ok)
  IN IF result.raised THEN result
     ELSE Ret(Memory(topic, result.value))

getLatestMemory(topic, L, ok) ==
  LET hash == topicHash(topic)
      result == readContract(LedgerGetLatestMemory(L, USER_ADDRESS, hash), ok)
  IN IF result.raised THEN Ret(Null)
     ELSE Ret(Memory(topic, result.value))

storeMemory_OtherOwner(topic, content) ==
  [functionName |-> "storeMemoryFor", user |-> OtherUser,
   topic |-> topicHash(topic), content |-> content]

storeMemory_TopicAsContent(topic, content) ==
  [functionName |-> "storeMemoryFor", user |-> USER_ADDRESS,
   topic |-> topicHash(topic), content |-> topic]

\* the writeContract call storeMemory issues
storeMemory(topic, content) ==
  [functionName |-> "storeMemoryFor", user |-> USER_ADDRESS,
   topic |-> topicHash(topic), content |-> content]

\* walletClient.writeContract: signs with `writer` and submits; returns the
\* transaction as submitted, or throws when submission fails.
writeContract(call, writer, ok) ==
  IF ~ok THEN Raise("submit")
  ELSE Ret([user |-> call.user, topic |-> call.topic, content |-> call.content,
            writer |-> writer, status |-> "pending", index |-> 0])

\* ------------------------------------------------------------------------
\* agent-app: MemoryDecisionSchema, decideMemory, answerUser
\* ------------------------------------------------------------------------
JSONparse(text) == IF text.json THEN Ret(text.value) ELSE Raise("SyntaxError")

MemoryDecisionSchema_OptionalFlag(v) ==
  IF v.type # "object" THEN Raise("ZodError")
  ELSE IF v.topic.type \notin {"string", "undefined"} THEN Raise("ZodError")
  ELSE IF v.summary.type \notin {"string", "undefined"} THEN Raise("ZodError")
  ELSE Ret([should_store |-> v.should_store, topic |-> v.topic, summary |-> v.summary])

MemoryDecisionSchema(v) ==
  IF v.type # "object" THEN Raise("ZodError")
  ELSE IF v.should_store.type # "boolean" THEN Raise("ZodError")
  ELSE IF v.topic.type \notin {"string", "undefined"} THEN Raise("ZodError")
  ELSE IF v.summary.type \notin {"string", "undefined"} THEN Raise("ZodError")
  ELSE Ret([should_store |-> v.should_store, topic |-> v.topic, summary |-> v.summary])

NoStoreDecision == [should_store |-> JBool(FALSE), topic |-> JUndef, summary |-> JUndef]

\* generateText: llm.ok = FALSE is a failed completion
decideMemory(userMessage, mems, llm) ==
  IF ~llm.ok THEN Raise("generateText")
  ELSE LET j == JSONparse(llm.text)
           d == IF j.raised THEN j ELSE MemoryDecisionSchema(j.value)
       IN IF d.raised THEN [raised |-> FALSE, value |-> NoStoreDecision, parseError |-> TRUE]
          ELSE [raised |-> FALSE, value |-> d.value, parseError |-> FALSE]

answerUser(userMessage, mems, llm) ==
  IF ~llm.ok THEN Raise("generateText") ELSE Ret(llm.text)

\* ------------------------------------------------------------------------
\* Inputs
\* ------------------------------------------------------------------------
Messages == {"My name is Alex, remember that."}

Txt(v) == [json |-> TRUE, value |-> v]
NotJson == [json |-> FALSE, value |-> JUndef]
NoText == [json |-> FALSE, value |-> JUndef, absent |-> TRUE]
DecisionObjects ==
  {JObj(JBool(TRUE), tp, sm, JUndef) :
     tp \in {JUndef, JNull, JStr(""), JStr("identity_profile"), JStr("goals")},
     sm \in {JUndef, JNum(1), JStr(""), JStr("A")}}
  \cup {JObj(ss, tp, tp, JUndef) :
     ss \in {JUndef, JBool(FALSE), JStr("true")}, tp \in {JUndef, JStr("identity_profile")}}
  \cup {JObj(JBool(TRUE), JStr("identity_profile"), JStr("A"), JNum(1))}
DecisionTexts == {NotJson, Txt(JNull), Txt(JArr), Txt(JNum(1))} \cup {Txt(o) : o \in DecisionObjects}
Completions == {[ok |-> FALSE, text |-> NoText]} \cup {[ok |-> TRUE, text |-> t] : t \in DecisionTexts}

\* ------------------------------------------------------------------------
\* Startup: getEnv and initialize (agent-app), getEnv and the top-level check
\* (agent-2)
\* ------------------------------------------------------------------------
Whitespace == {" ", "\t", "\n"}
RECURSIVE trimStart(_)
trimStart(c) == IF c # <<>> /\ Head(c) \in Whitespace THEN trimStart(Tail(c)) ELSE c
RECURSIVE trimEnd(_)
trimEnd(c) ==
  IF c # <<>> /\ c[Len(c)] \in Whitespace THEN trimEnd(SubSeq(c, 1, Len(c) - 1)) ELSE c
trim(c) == trimEnd(trimStart(c))

\* JavaScript a || b
OrElse(a, b) == IF Truthy(a) THEN a ELSE b

safe_NoTrim(v) == IF v.type = "chars" /\ v.c # <<>> THEN v ELSE JUndef
safe(v) == IF v.type = "chars" /\ trim(v.c) # <<>> THEN JChars(trim(v.c)) ELSE JUndef

\* one configuration name looked up in the env argument (initialize() passes
\* none), in the vars of wrangler.jsonc and in process.env
Lookup(environ, name) ==
  OrElse(OrElse(safe(JUndef), safe(environ[name].vars)), safe(environ[name].penv))

getEnv(environ) ==
  [ANTHROPIC_API_KEY |-> OrElse(Lookup(environ, "ANTHROPIC_API_KEY"), JChars(<<>>)),
   RPC_URL |-> OrElse(Lookup(environ, "RPC_URL"), JChars(<<>>)),
   MEMORY_VAULT_ADDRESS |-> Lookup(environ, "MEMORY_VAULT_ADDRESS"),
   USER_ADDRESS |-> Lookup(environ, "USER_ADDRESS"),
   AGENT_PRIVATE_KEY |-> OrElse(Lookup(environ, "AGENT_PRIVATE_KEY"), JChars(<<>>)),
   MODEL_ID |-> OrElse(Lookup(environ, "MODEL_ID"), JStr("claude-3-5-sonnet-20241022"))]

getEnv2(environ) ==
  [ANTHROPIC_API_KEY |-> OrElse(Lookup(environ, "ANTHROPIC_API_KEY"), JChars(<<>>)),
   RPC_URL |-> OrElse(Lookup(environ, "RPC_URL"), JChars(<<>>)),
   MEMORY_VAULT_ADDRESS |-> Lookup(environ, "MEMORY_VAULT_ADDRESS"),
   USER_ADDRESS |-> Lookup(environ, "USER_ADDRESS"),
   MODEL_ID |-> OrElse(Lookup(environ, "MODEL_ID"), JStr("claude-sonnet-4-20250514"))]

\* process.exit(code), or the process goes on with config
Exit(code) == [exit |-> TRUE, code |-> code]
Proceed(config) == [exit |-> FALSE, config |-> config]

initialize(environ) ==
  LET config == getEnv(environ)
  IN IF \/ ~Truthy(config.ANTHROPIC_API_KEY) \/ ~Truthy(config.RPC_URL)
        \/ ~Truthy(config.MEMORY_VAULT_ADDRESS) \/ ~Truthy(config.USER_ADDRESS)
        \/ ~Truthy(config.AGENT_PRIVATE_KEY)
     THEN Exit(1)
     ELSE Proceed(config)

initialize2(environ) ==
  LET config == getEnv2(environ)
  IN IF \/ ~Truthy(config.ANTHROPIC_API_KEY) \/ ~Truthy(config.RPC_URL)
        \/ ~Truthy(config.MEMORY_VAULT_ADDRESS) \/ ~Truthy(config.USER_ADDRESS)
     THEN Exit(1)
     ELSE Proceed(config)

\* environments a process may be started in: per name, what wrangler.jsonc
\* and process.env hold
EnvNames == {"ANTHROPIC_API_KEY", "RPC_URL", "MEMORY_VAULT_ADDRESS", "USER_ADDRESS",
             "AGENT_PRIVATE_KEY"}
Held(file, penv) == [vars |-> file, penv |-> penv]
Settings ==
  { Held(JUndef, JUndef),
    Held(JChars(<<>>), JUndef),
    Held(JChars(<<" ", "\t">>), JUndef),
    Held(JChars(<<" ", "k", " ">>), JUndef),
    Held(JChars(<<" ">>), JChars(<<"k">>)) }
WithModelId(e) == [n \in EnvNames \cup {"MODEL_ID"} |->
                     IF n = "MODEL_ID" THEN Held(JUndef, JUndef) ELSE e[n]]
Environs == {WithModelId(e) : e \in [EnvNames -> Settings]}
CompleteEnviron == WithModelId([n \in EnvNames |-> Held(JChars(<<"k">>), JUndef)])

Process(program, status, exitCode, environ) ==
  [program |-> program, status |-> status, exitCode |-> exitCode, environ |-> environ]

\* ------------------------------------------------------------------------
\* Init
\* ------------------------------------------------------------------------
NoArg == <<[type |-> "not called"]>>
NoDecision == [should_store |-> JUndef, topic |-> JUndef, summary |-> JUndef]
Response(status, success, kind, tx, data) ==
  [status |-> status, success |-> success, kind |-> kind, tx |-> tx, data |-> data]
NoResp == Response(0, JUndef, "none", 0, JNull)
Body(json, user_address, topic, content) ==
  [json |-> json, user_address |-> user_address, topic |-> topic, content |-> content]
NoReq == [method |-> "", path |-> "", body |-> Body(FALSE, JUndef, JUndef, JUndef)]
Notice(kind, tx) == [kind |-> kind, tx |-> tx]
WriteResult(kind, tx) == [kind |-> kind, tx |-> tx]

InitRest ==
  /\ txs = <<>>
  /\ asked = <<>>
  /\ ntool = 0
  /\ turn = 0
  /\ msg = ""
  /\ ti = 1
  /\ memories = <<>>
  /\ reads = <<>>
  /\ replyArg = NoArg
  /\ decideArg = NoArg
  /\ decision = NoDecision
  /\ llmText = NoText
  /\ storeCalls = <<>>
  /\ writeResult = WriteResult("none", 0)
  /\ out = <<>>
  /\ crashedIn = "none"
  /\ req = NoReq
  /\ env = [keyOk |-> TRUE, ok |-> TRUE]
  /\ resp = NoResp
  /\ httpCalls = <<>>
  /\ nreq = 0
  /\ sturn = 0
  /\ si = 1
  /\ count = 0
  /\ i = 0
  /\ results = <<>>
  /\ sreads = <<>>

\* every process already up and running
InitProcesses ==
  /\ proc = Process("all", "running", 0, CompleteEnviron)
  /\ pc = "Idle"
  /\ spc = "Idle"
  /\ InitRest

EmptyLedger == [p \in Owners \X Keys |-> <<>>]

Init ==
  /\ ledger = EmptyLedger
  /\ now = 0
  /\ InitProcesses

\* ------------------------------------------------------------------------
\* The ledger: a submitted transaction finalizes (the record is appended)
\* or fails (nothing is appended)
\* ------------------------------------------------------------------------
Finalize(id) ==
  /\ txs[id].status = "pending"
  /\ ledger' = LedgerStoreMemoryFor(ledger, txs[id].user, txs[id].topic,
                                    txs[id].content, txs[id].writer, now + 1)
  /\ now' = now + 1
  /\ txs' = [txs EXCEPT ![id].status = "finalized",
                         ![id].index = Len(ledger[<<txs[id].user, txs[id].topic>>])]
  /\ UNCHANGED <<asked, orchVars, httpVars, toolVars, scanVars, proc>>

FailTx(id) ==
  /\ txs[id].status = "pending"
  /\ txs' = [txs EXCEPT ![id].status = "failed"]
  /\ UNCHANGED <<ledger, asked, now, orchVars, httpVars, toolVars, scanVars, proc>>

\* ------------------------------------------------------------------------
\* agent-app main(): one action per await of the loop body
\* ------------------------------------------------------------------------
\* an exception that escapes main() rejects its promise: the process ends
Crash(phase) ==
  /\ pc' = "Crashed"
  /\ crashedIn' = phase

ShouldWrite_IgnoresSummary(d) == Truthy(d.should_store) /\ Truthy(d.topic)
ShouldWrite(d) == Truthy(d.should_store) /\ Truthy(d.topic) /\ Truthy(d.summary)

Accept_WhileBusy(m) ==
  /\ pc \in {"Idle", "Writing", "Skipping"}
  /\ turn < MaxTurns
  /\ pc' = "Reading"
  /\ turn' = turn + 1
  /\ msg' = m
  /\ ti' = 1
  /\ memories' = <<>>
  /\ reads' = <<>>
  /\ replyArg' = NoArg
  /\ decideArg' = NoArg
  /\ decision' = NoDecision
  /\ llmText' = NoText
  /\ storeCalls' = <<>>
  /\ writeResult' = WriteResult("none", 0)
  /\ UNCHANGED <<out, crashedIn, ledgerVars, httpVars, toolVars, scanVars, proc>>

Accept(m) ==
  /\ pc = "Idle"
  /\ turn < MaxTurns
  /\ pc' = "Reading"
  /\ turn' = turn + 1
  /\ msg' = m
  /\ ti' = 1
  /\ memories' = <<>>
  /\ reads' = <<>>
  /\ replyArg' = NoArg
  /\ decideArg' = NoArg
  /\ decision' = NoDecision
  /\ llmText' = NoText
  /\ storeCalls' = <<>>
  /\ writeResult' = WriteResult("none", 0)
  /\ UNCHANGED <<out, crashedIn, ledgerVars, httpVars, toolVars, scanVars, proc>>

ReadTopic(ok) ==
  /\ pc = "Reading"
  /\ ti <= Len(topics)
  /\ LET t == topics[ti]
         m == getLatestMemory(t, ledger, ok)
     IN /\ reads' = Append(reads, [topic |-> t, ok |-> ok,
                                   answer |-> LedgerGetLatestMemory(ledger, USER_ADDRESS, topicHash(t)),
                                   outcome |-> m])
        /\ IF m.raised
           THEN /\ Crash("Reading")
                /\ UNCHANGED <<memories, ti>>
           ELSE /\ memories' = IF Truthy(m.value) THEN Append(memories, m.value) ELSE memories
                /\ ti' = ti + 1
                /\ pc' = IF ti = Len(topics) THEN "Replying" ELSE "Reading"
                /\ UNCHANGED crashedIn
  /\ UNCHANGED <<turn, msg, replyArg, decideArg, decision, llmText, storeCalls, writeResult, out,
                 ledgerVars, httpVars, toolVars, scanVars, proc>>

Reply(llm) ==
  /\ pc = "Replying"
  /\ replyArg' = memories
  /\ LET reply == answerUser(msg, memories, llm)
     IN IF reply.raised
        THEN /\ Crash("Replying")
             /\ UNCHANGED out
        ELSE /\ out' = Append(out, Notice("reply", 0))
             /\ pc' = "Deciding"
             /\ UNCHANGED crashedIn
  /\ UNCHANGED <<turn, msg, ti, memories, reads, decideArg, decision, llmText, storeCalls, writeResult,
                 ledgerVars, httpVars, toolVars, scanVars, proc>>

Decide(llm) ==
  /\ pc = "Deciding"
  /\ decideArg' = memories
  /\ llmText' = llm.text
  /\ LET d == decideMemory(msg, memories, llm)
     IN IF d.raised
        THEN /\ Crash("Deciding")
             /\ UNCHANGED <<decision, out>>
        ELSE /\ decision' = d.value
             /\ out' = (IF d.parseError THEN Append(out, Notice("parse_error", 0)) ELSE out)
                       \o (IF ShouldWrite(d.value) THEN <<Notice("storing", 0)>> ELSE <<>>)
             /\ pc' = IF ShouldWrite(d.value) THEN "Writing" ELSE "Skipping"
             /\ UNCHANGED crashedIn
  /\ UNCHANGED <<turn, msg, ti, memories, reads, replyArg, storeCalls, writeResult,
                 ledgerVars, httpVars, toolVars, scanVars, proc>>

Write_Rethrows(ok) ==
  /\ pc = "Writing"
  /\ LET call == storeMemory(decision.topic.s, decision.summary.s)
         tx == writeContract(call, account, ok)
     IN /\ storeCalls' = Append(storeCalls, call)
        /\ IF tx.raised
           THEN /\ Crash("Writing")
                /\ writeResult' = WriteResult("raised", 0)
                /\ UNCHANGED <<txs, asked, out>>
           ELSE /\ txs' = Append(txs, tx.value)
                /\ asked' = Append(asked, [owner |-> USER_ADDRESS, topic |-> decision.topic.s])
                /\ writeResult' = WriteResult("tx", Len(txs) + 1)
                /\ out' = Append(out, Notice("stored", Len(txs) + 1))
                /\ pc' = "Idle"
                /\ UNCHANGED crashedIn
  /\ UNCHANGED <<turn, msg, ti, memories, reads, replyArg, decideArg, decision, llmText,
                 ledger, now, httpVars, toolVars, scanVars, proc>>

Write(ok) ==
  /\ pc = "Writing"
  /\ LET call == storeMemory(decision.topic.s, decision.summary.s)
         tx == writeContract(call, account, ok)
     IN /\ storeCalls' = Append(storeCalls, call)
        /\ IF tx.raised
           THEN /\ out' = Append(out, Notice("failed", 0))
                /\ writeResult' = WriteResult("raised", 0)
                /\ UNCHANGED <<txs, asked>>
           ELSE /\ txs' = Append(txs, tx.value)
                /\ asked' = Append(asked, [owner |-> USER_ADDRESS, topic |-> decision.topic.s])
                /\ writeResult' = WriteResult("tx", Len(txs) + 1)
                /\ out' = Append(out, Notice("stored", Len(txs) + 1))
  /\ pc' = "Idle"
  /\ UNCHANGED <<turn, msg, ti, memories, reads, replyArg, decideArg, decision, llmText,
                 crashedIn, ledger, now, httpVars, toolVars, scanVars, proc>>

Skip_Stores ==
  /\ pc = "Skipping"
  /\ out' = Append(out, Notice("no_store", 0))
  /\ pc' = "Idle"
  /\ txs' = Append(txs, writeContract(storeMemory("identity_profile", "A"), account, TRUE).value)
  /\ asked' = Append(asked, [owner |-> USER_ADDRESS, topic |-> "identity_profile"])
  /\ UNCHANGED <<turn, msg, ti, memories, reads, replyArg, decideArg, decision, llmText,
                 storeCalls, writeResult, crashedIn, ledger, now, httpVars, toolVars, scanVars, proc>>

Skip ==
  /\ pc = "Skipping"
  /\ out' = Append(out, Notice("no_store", 0))
  /\ pc' = "Idle"
  /\ UNCHANGED <<turn, msg, ti, memories, reads, replyArg, decideArg, decision, llmText,
                 storeCalls, writeResult, crashedIn, ledgerVars, httpVars, toolVars, scanVars, proc>>

Orchestrator ==
  \/ \E m \in Messages : Accept(m)
  \/ \E ok \in BOOLEAN : ReadTopic(ok)
  \/ \E ok \in BOOLEAN : Reply([ok |-> ok, text |-> "reply"])
  \/ \E llm \in Completions : Decide(llm)
  \/ \E ok \in BOOLEAN : Write(ok)
  \/ Skip

Ledger ==
  \/ \E id \in 1..Len(txs) : Finalize(id)
  \/ \E id \in 1..Len(txs) : FailTx(id)

\* ------------------------------------------------------------------------
\* mcp-memory-vault tools.ts: store_memory invoked by another agent
\* ------------------------------------------------------------------------
storeMemoryHandler_FixedOwner(user_address, topic, content) ==
  [functionName |-> "storeMemoryFor", user |-> OtherUser,
   topic |-> topicHashTools(topic), content |-> content]

storeMemoryHandler(user_address, topic, content) ==
  [functionName |-> "storeMemoryFor", user |-> user_address,
   topic |-> topicHashTools(topic), content |-> content]

ToolStore(user_address, topic, content, ok) ==
  /\ ntool < MaxToolCalls
  /\ ntool' = ntool + 1
  /\ LET tx == writeContract(storeMemoryHandler(user_address, topic, content),
                             serviceAccount, ok)
     IN /\ txs' = IF tx.raised THEN txs ELSE Append(txs, tx.value)
        /\ asked' = IF tx.raised THEN asked
                    ELSE Append(asked, [owner |-> user_address, topic |-> topic])
  /\ UNCHANGED <<ledger, now, orchVars, httpVars, scanVars, proc>>

Tools ==
  \E u \in Owners, t \in {"identity_profile", "preferences", "Preferences"}, ok \in BOOLEAN :
     ToolStore(u, t, "B", ok)

\* ------------------------------------------------------------------------
\* agent-2: fetchUserMemories and main()
\* ------------------------------------------------------------------------
replyWithMemories(userMessage, mems, llm) ==
  IF ~llm.ok THEN Raise("generateText") ELSE Ret(llm.text)

getMemoryCount_PlusOne(topic, L, ok) ==
  LET c == readContract(LedgerGetMemoryCount(L, USER_ADDRESS, topicHash2(topic)), ok)
  IN IF c.raised THEN c ELSE Ret(c.value + 1)

getMemoryCount(topic, L, ok) ==
  readContract(LedgerGetMemoryCount(L, USER_ADDRESS, topicHash2(topic)), ok)

getMemory_OneBased(topic, index, L, ok) ==
  readContract(LedgerGetMemory(L, USER_ADDRESS, topicHash2(topic), index + 1), ok)

getMemory(topic, index, L, ok) ==
  readContract(LedgerGetMemory(L, USER_ADDRESS, topicHash2(topic), index), ok)

\* leave the current topic: the for-of loop moves on, or the scan returns
NextTopic(status, n) ==
  /\ sreads' = Append(sreads, [topic |-> knownTopics[si], status |-> status, n |-> n])
  /\ si' = si + 1
  /\ spc' = IF si = Len(knownTopics) THEN "Reply" ELSE "Count"

ScanAccept ==
  /\ spc = "Idle"
  /\ sturn < MaxScans
  /\ sturn' = sturn + 1
  /\ spc' = "Count"
  /\ si' = 1
  /\ count' = 0
  /\ i' = 0
  /\ results' = <<>>
  /\ sreads' = <<>>
  /\ UNCHANGED <<ledgerVars, orchVars, httpVars, toolVars, proc>>

ScanCount(ok) ==
  /\ spc = "Count"
  /\ LET c == getMemoryCount(knownTopics[si], ledger, ok)
     IN IF c.raised
        THEN /\ NextTopic("failed", 0)
             /\ UNCHANGED <<count, i>>
        ELSE /\ count' = Number(c.value)
             /\ i' = 0
             /\ IF 0 < Number(c.value)
                THEN /\ spc' = "Get"
                     /\ UNCHANGED <<si, sreads>>
                ELSE NextTopic("ok", 0)
  /\ UNCHANGED <<sturn, results, ledgerVars, orchVars, httpVars, toolVars, proc>>

ScanGet_Prepends(ok) ==
  /\ spc = "Get"
  /\ LET topic == knownTopics[si]
         mem == getMemory(topic, i, ledger, ok)
     IN IF mem.raised
        THEN /\ NextTopic("failed", count)
             /\ UNCHANGED <<i, results>>
        ELSE /\ results' = <<Memory(topic, mem.value)>> \o results
             /\ i' = i + 1
             /\ IF i + 1 < count
                THEN UNCHANGED <<spc, si, sreads>>
                ELSE NextTopic("ok", count)
  /\ UNCHANGED <<sturn, count, ledgerVars, orchVars, httpVars, toolVars, proc>>

ScanGet_NoCatch(ok) ==
  /\ spc = "Get"
  /\ LET topic == knownTopics[si]
         mem == getMemory(topic, i, ledger, ok)
     IN IF mem.raised
        THEN /\ spc' = "Crashed"
             /\ UNCHANGED <<i, results, si, sreads>>
        ELSE /\ results' = Append(results, Memory(topic, mem.value))
             /\ i' = i + 1
             /\ IF i + 1 < count
                THEN UNCHANGED <<spc, si, sreads>>
                ELSE NextTopic("ok", count)
  /\ UNCHANGED <<sturn, count, ledgerVars, orchVars, httpVars, toolVars, proc>>

ScanGet(ok) ==
  /\ spc = "Get"
  /\ LET topic == knownTopics[si]
         mem == getMemory(topic, i, ledger, ok)
     IN IF mem.raised
        THEN /\ NextTopic("failed", count)
             /\ UNCHANGED <<i, results>>
        ELSE /\ results' = Append(results, Memory(topic, mem.value))
             /\ i' = i + 1
             /\ IF i + 1 < count
                THEN UNCHANGED <<spc, si, sreads>>
                ELSE NextTopic("ok", count)
  /\ UNCHANGED <<sturn, count, ledgerVars, orchVars, httpVars, toolVars, proc>>

ScanReply(llm) ==
  /\ spc = "Reply"
  /\ spc' = IF replyWithMemories("", results, llm).raised THEN "Crashed" ELSE "Idle"
  /\ UNCHANGED <<sturn, si, count, i, results, sreads,
                 ledgerVars, orchVars, httpVars, toolVars, proc>>

Scanner ==
  \/ ScanAccept
  \/ \E ok \in BOOLEAN : ScanCount(ok)
  \/ \E ok \in BOOLEAN : ScanGet(ok)
  \/ \E ok \in BOOLEAN : ScanReply([ok |-> ok, text |-> "reply"])

\* ------------------------------------------------------------------------
\* mcp-memory-vault server.ts: fetch(request, env)
\* ------------------------------------------------------------------------
Bodies ==
  { Body(FALSE, JUndef, JUndef, JUndef),
    Body(TRUE, JStr(USER_ADDRESS), JStr("identity_profile"), JStr("B")),
    Body(TRUE, JStr(OtherUser), JStr("identity_profile"), JStr("B")),
    Body(TRUE, JStr(USER_ADDRESS), JStr("identity_profile"), JUndef),
    Body(TRUE, JStr(USER_ADDRESS), JStr(""), JStr("B")),
    Body(TRUE, JUndef, JStr("identity_profile"), JStr("B")) }
Requests ==
  [method : {"GET", "POST", "OPTIONS", "DELETE"},
   path : {"/", "/store-memory", "/get-memory", "/other"},
   body : Bodies]

\* the required-field checks of the two POST routes
storeMissing(body) ==
  ~Truthy(body.user_address) \/ ~Truthy(body.topic) \/ ~Truthy(body.content)
getMissing_IgnoresTopic(body) == ~Truthy(body.user_address)
getMissing(body) == ~Truthy(body.user_address) \/ ~Truthy(body.topic)

\* the catch clause around the whole handler
ServerError_Rethrows(calls) == [resp |-> NoResp, calls |-> calls, submit |-> <<>>]
ServerError(calls) ==
  [resp |-> Response(500, JBool(FALSE), "error", 0, JNull), calls |-> calls, submit |-> <<>>]

\* what the handler answers, the ledger calls it makes and the transaction it
\* submits; env.keyOk: PRIVATE_KEY is a well-formed key; ok: the ledger call
\* goes through; txid: the id the submitted transaction gets
fetch(request, keyOk, L, ok, txid) ==
  IF ~keyOk THEN ServerError(<<>>)
  ELSE IF request.method = "GET"
  THEN [resp |-> Response(200, JUndef, "descriptor", 0, JNull), calls |-> <<>>, submit |-> <<>>]
  ELSE IF request.method = "POST" /\ request.path = "/store-memory"
  THEN IF ~request.body.json THEN ServerError(<<>>)
       ELSE IF storeMissing(request.body)
       THEN [resp |-> Response(400, JBool(FALSE), "error", 0, JNull),
             calls |-> <<>>, submit |-> <<>>]
       ELSE LET call == [functionName |-> "storeMemoryFor",
                         user |-> request.body.user_address.s,
                         topic |-> topicHashServer(request.body.topic.s),
                         content |-> request.body.content.s]
                tx == writeContract(call, serviceAccount, ok)
            IN IF tx.raised THEN ServerError(<<call>>)
               ELSE [resp |-> Response(200, JBool(TRUE), "store", txid, JNull),
                     calls |-> <<call>>, submit |-> <<tx.value>>]
  ELSE IF request.method = "POST" /\ request.path = "/get-memory"
  THEN IF ~request.body.json THEN ServerError(<<>>)
       ELSE IF getMissing(request.body)
       THEN [resp |-> Response(400, JBool(FALSE), "error", 0, JNull),
             calls |-> <<>>, submit |-> <<>>]
       ELSE LET hash == topicHashServer(request.body.topic.s)
                call == [functionName |-> "getLatestMemory",
                         user |-> request.body.user_address.s,
                         topic |-> hash, content |-> ""]
                result == readContract(
                            LedgerGetLatestMemory(L, request.body.user_address.s, hash), ok)
            IN IF result.raised THEN ServerError(<<call>>)
               ELSE [resp |-> Response(200, JBool(TRUE), "get", 0,
                                       [timestamp |-> Number(result.value.timestamp),
                                        writer |-> result.value.writer,
                                        content |-> result.value.content]),
                     calls |-> <<call>>, submit |-> <<>>]
  ELSE IF request.method = "OPTIONS"
  THEN [resp |-> Response(204, JUndef, "preflight", 0, JNull), calls |-> <<>>, submit |-> <<>>]
  ELSE [resp |-> Response(404, JUndef, "notfound", 0, JNull), calls |-> <<>>, submit |-> <<>>]

HttpFetch(request, keyOk, ok) ==
  /\ nreq < MaxRequests
  /\ nreq' = nreq + 1
  /\ req' = request
  /\ env' = [keyOk |-> keyOk, ok |-> ok]
  /\ LET r == fetch(request, keyOk, ledger, ok, Len(txs) + 1)
     IN /\ resp' = r.resp
        /\ httpCalls' = r.calls
        /\ txs' = txs \o r.submit
        /\ asked' = IF r.submit = <<>> THEN asked
                    ELSE Append(asked, [owner |-> request.body.user_address.s,
                                        topic |-> request.body.topic.s])
  /\ UNCHANGED <<ledger, now, orchVars, toolVars, scanVars, proc>>

Http == \E request \in Requests, keyOk \in BOOLEAN, ok \in BOOLEAN : HttpFetch(request, keyOk, ok)

\* A ledger that already holds records when the scanner starts
RECURSIVE Stored(_, _)
Stored(n, t0) ==
  IF n = 0 THEN <<>>
  ELSE Append(Stored(n - 1, t0),
              [timestamp |-> t0 + n, writer |-> IF n % 2 = 1 THEN account ELSE serviceAccount,
               content |-> IF n % 2 = 1 THEN "A" ELSE "B"])

InitScan ==
  /\ \E n1 \in 0..MaxInitRecords, n2 \in 0..MaxInitRecords :
       /\ ledger = [p \in Owners \X Keys |->
                      IF p = <<USER_ADDRESS, topicHash("identity_profile")>> THEN Stored(n1, 0)
                      ELSE IF p = <<USER_ADDRESS, topicHash("goals")>> THEN Stored(n2, n1)
                      ELSE <<>>]
       /\ now = n1 + n2
  /\ InitProcesses

\* ------------------------------------------------------------------------
\* Process start: module top level of agent-app and of agent-2
\* ------------------------------------------------------------------------
Launch(status) ==
  proc' = [proc EXCEPT !.status = IF status.exit THEN "exited" ELSE "running",
                       !.exitCode = IF status.exit THEN status.code ELSE 0]

AppStart ==
  /\ proc.program = "agent-app"
  /\ pc = "Starting"
  /\ Launch(initialize(proc.environ))
  /\ pc' = IF initialize(proc.environ).exit THEN "Exited" ELSE "Idle"
  /\ UNCHANGED <<turn, msg, ti, memories, reads, replyArg, decideArg, decision, llmText,
                 storeCalls, writeResult, out, crashedIn, ledgerVars, httpVars, toolVars, scanVars>>

ScanStart ==
  /\ proc.program = "agent-2"
  /\ spc = "Starting"
  /\ Launch(initialize2(proc.environ))
  /\ spc' = IF initialize2(proc.environ).exit THEN "Exited" ELSE "Idle"
  /\ UNCHANGED <<sturn, si, count, i, results, sreads, ledgerVars, orchVars, httpVars, toolVars>>

\* one of the two agent programs is launched in some environment; the ledger
\* already holds a record
InitStartup ==
  /\ ledger = [EmptyLedger EXCEPT ![<<USER_ADDRESS, topicHash("identity_profile")>>] = Stored(1, 0)]
  /\ now = 1
  /\ \E program \in {"agent-app", "agent-2"}, environ \in Environs :
       /\ proc = Process(program, "starting", 0, environ)
       /\ pc = IF program = "agent-app" THEN "Starting" ELSE "Off"
       /\ spc = IF program = "agent-2" THEN "Starting" ELSE "Off"
  /\ InitRest

NextStartup == AppStart \/ ScanStart \/ Orchestrator \/ Scanner

SpecStartup == InitStartup /\ [][NextStartup]_vars

Next == Orchestrator \/ Ledger \/ Tools

Spec == Init /\ [][Next]_vars

NextScan == Scanner \/ Ledger \/ Tools

SpecScan == InitScan /\ [][NextScan]_vars

\* every awaited read or completion of the scanner settles: it resolves or rejects
SpecScanFair == SpecScan /\ WF_vars(Scanner)

NextHttp == Http \/ Ledger \/ Tools

SpecHttp == Init /\ [][NextHttp]_vars

\* any one of the three programs, running against the ledger other agents
\* write to
Programs == {"agent-app", "agent-2", "mcp-memory-vault"}
InitEach ==
  /\ \E program \in Programs, n1 \in 0..MaxInitRecords, n2 \in 0..MaxInitRecords :
       /\ program # "agent-2" => (n1 = 0 /\ n2 = 0)
       /\ proc = Process(program, "running", 0, CompleteEnviron)
       /\ ledger = [p \in Owners \X Keys |->
                      IF p = <<USER_ADDRESS, topicHash("identity_profile")>> THEN Stored(n1, 0)
                      ELSE IF p = <<USER_ADDRESS, topicHash("goals")>> THEN Stored(n2, n1)
                      ELSE <<>>]
       /\ now = n1 + n2
  /\ pc = "Idle"
  /\ spc = "Idle"
  /\ InitRest

NextEach ==
  \/ proc.program = "agent-app" /\ Orchestrator
  \/ proc.program = "agent-2" /\ Scanner
  \/ proc.program = "mcp-memory-vault" /\ Http
  \/ Ledger
  \/ Tools

SpecEach == InitEach /\ [][NextEach]_vars

\* the Reading phase of the orchestrator and the read-only agent side by
\* side, configured with the same user and reading one ledger that nobody
\* appends to meanwhile; the turn is followed up to the end of its reads
InitBoth ==
  /\ \E n1 \in 0..MaxInitRecords, n2 \in 0..MaxInitRecords, n3 \in 0..1 :
       /\ ledger = [p \in Owners \X Keys |->
                      IF p = <<USER_ADDRESS, topicHash("identity_profile")>> THEN Stored(n1, 0)
                      ELSE IF p = <<USER_ADDRESS, topicHash("preferences")>> THEN Stored(n2, n1)
                      ELSE IF p = <<USER_ADDRESS, topicHash("goals")>> THEN Stored(n3, n1 + n2)
                      ELSE <<>>]
       /\ now = n1 + n2 + n3
  /\ InitProcesses

NextBoth ==
  \/ \E m \in Messages : Accept(m)
  \/ \E ok \in BOOLEAN : ReadTopic(ok)
  \/ Scanner

SpecBoth == InitBoth /\ [][NextBoth]_vars

\* ========================================================================
\* Properties
\* ========================================================================
Last(s) == s[Len(s)]
IsNonEmptyString(v) == v.type = "string" /\ v.s # ""
Actionable(d) ==
  /\ d.should_store.type = "boolean" /\ d.should_store.b
  /\ IsNonEmptyString(d.topic)
  /\ IsNonEmptyString(d.summary)

\* C1: a turn issues a store exactly when its Decision has should_store = true
\* and a non-empty topic and summary; then it issues exactly one, with owner
\* USER_ADDRESS, key topicHash(decision.topic) and content decision.summary.
\* No store call exists before the decision, nor in a turn that skips.
C1_StoreIffActionable ==
  /\ pc \in {"Reading", "Replying", "Deciding", "Writing", "Skipping", "Crashed"}
       => storeCalls = <<>>
  /\ pc = "Idle" =>
       IF Actionable(decision)
       THEN storeCalls = <<[functionName |-> "storeMemoryFor", user |-> USER_ADDRESS,
                            topic |-> topicHash(decision.topic.s),
                            content |-> decision.summary.s]>>
       ELSE storeCalls = <<>>

C1_Witness ==
  /\ pc = "Idle"
  /\ Actionable(decision)
  /\ Len(storeCalls) = 1
  /\ decision.topic.s = "goals"

\* C2: when the model's text is not valid JSON, or is JSON that violates the
\* Decision schema, decideMemory returns {should_store: false} and the turn
\* goes on (nothing is raised).
ViolatesSchema(text) ==
  \/ ~text.json
  \/ text.value.type # "object"
  \/ /\ text.value.type = "object"
     /\ \/ text.value.should_store.type # "boolean"
        \/ text.value.topic.type \notin {"undefined", "string"}
        \/ text.value.summary.type \notin {"undefined", "string"}

C2_FailSafeDecision ==
  (llmText # NoText /\ ViolatesSchema(llmText)) =>
     /\ decision = NoStoreDecision
     /\ pc \in {"Skipping", "Idle"}
     /\ crashedIn = "none"

C2_Witness ==
  /\ llmText # NoText
  /\ llmText.json
  /\ llmText.value.type = "object"
  /\ llmText.value.should_store.type = "undefined"
  /\ llmText.value.topic.type = "string"
  /\ decision = NoStoreDecision
  /\ pc = "Skipping"

\* C3: no per-turn failure ends the turn or the process; in particular a failed
\* language-model completion in Replying or Deciding does not escape main().
C3_NoTurnFailureIsFatal == pc # "Crashed"

\* C4: read failures in Reading never abort the turn; answerUser and
\* decideMemory are both invoked with exactly the memories of the topics whose
\* read succeeded, in candidate-topic order.
Succeeded(rs) == SelectSeq(rs, LAMBDA r : r.ok /\ r.answer.kind = "value")
ExpectedMemories(rs) ==
  [k \in 1..Len(Succeeded(rs)) |->
     [type |-> "memory", topic |-> Succeeded(rs)[k].topic,
      content |-> Succeeded(rs)[k].answer.v.content,
      timestamp |-> Succeeded(rs)[k].answer.v.timestamp,
      writer |-> Succeeded(rs)[k].answer.v.writer]]

C4_ReadFailuresOmitted ==
  /\ crashedIn # "Reading"
  /\ pc \in {"Replying", "Deciding", "Writing", "Skipping"} =>
       /\ [k \in 1..Len(reads) |-> reads[k].topic] = topics
       /\ memories = ExpectedMemories(reads)
  /\ replyArg # NoArg => replyArg = ExpectedMemories(reads)
  /\ decideArg # NoArg => decideArg = ExpectedMemories(reads)
  /\ pc \in {"Writing", "Skipping"} => decideArg # NoArg

C4_Witness ==
  /\ pc \in {"Writing", "Skipping"}
  /\ \E k \in 1..Len(reads) : ~reads[k].ok /\ reads[k].answer.kind = "value"
  /\ \E k \in 1..Len(reads) : reads[k].ok /\ reads[k].answer.kind = "value"
  /\ Len(decideArg) = 1

\* C5: a failed store is reported on the output channel, is not retried, does
\* not end the process, and leaves the orchestrator in Idle, where the next
\* utterance is accepted as after a successful write.
C5_FailedWriteReported ==
  writeResult.kind = "raised" =>
     /\ pc = "Idle"
     /\ crashedIn = "none"
     /\ Len(storeCalls) = 1
     /\ Last(out) = Notice("failed", 0)
     /\ turn < MaxTurns => ENABLED (\E m \in Messages : Accept(m))

C5_Witness ==
  \E k \in 1..Len(out) :
     /\ out[k].kind = "failed"
     /\ k < Len(out)
     /\ out[k + 1].kind = "reply"

\* C6: a store whose transaction fails, at submission or at finalization, is
\* never reported as stored.
C6_FailedStoreNeverReportedStored ==
  /\ \A k \in 1..Len(out) :
       out[k].kind = "stored" => txs[out[k].tx].status # "failed"
  /\ (resp.kind = "store" /\ resp.status = 200) => txs[resp.tx].status # "failed"

\* C7: a decision {should_store: true, topic: T, summary: S} with T a candidate
\* topic leads to exactly one store under topicHash(T); once that transaction
\* has finalized and while its record is the last of the MemorySet,
\* getLatestMemory(T) returns content S.
C7_StoredThenLatest ==
  (pc = "Idle" /\ Actionable(decision) /\ decision.topic.s \in Range(topics)) =>
     /\ Len(storeCalls) = 1
     /\ storeCalls[1].topic = topicHash(decision.topic.s)
     /\ storeCalls[1].user = USER_ADDRESS
     /\ ( /\ writeResult.kind = "tx"
          /\ txs[writeResult.tx].status = "finalized"
          /\ Len(ledger[<<USER_ADDRESS, topicHash(decision.topic.s)>>])
               = txs[writeResult.tx].index + 1 )
        => LET m == getLatestMemory(decision.topic.s, ledger, TRUE)
           IN /\ ~m.raised
              /\ m.value.type = "memory"
              /\ m.value.content = decision.summary.s
              /\ m.value.topic = decision.topic.s

C7_Witness ==
  /\ pc = "Idle"
  /\ Actionable(decision)
  /\ decision.topic.s = "identity_profile"
  /\ writeResult.kind = "tx"
  /\ txs[writeResult.tx].status = "finalized"
  /\ txs[writeResult.tx].index = 1
  /\ Len(ledger[<<USER_ADDRESS, topicHash("identity_profile")>>]) = 2
  /\ ledger[<<USER_ADDRESS, topicHash("identity_profile")>>][1].writer = serviceAccount

\* C8: the scan result holds no record of a topic whose count read or record
\* read failed, and all records (as counted) of every other topic, in write order.
TopicRun(topic) == SelectSeq(results, LAMBDA m : m.topic = topic)
C8_FailedTopicContributesNothing ==
  \A k \in 1..Len(sreads) :
     IF sreads[k].status = "failed"
     THEN TopicRun(sreads[k].topic) = <<>>
     ELSE TopicRun(sreads[k].topic) =
            [j \in 1..sreads[k].n |->
               Memory(sreads[k].topic,
                      ledger[<<USER_ADDRESS, topicHash(sreads[k].topic)>>][j])]

\* C9: when the store issued by a turn finalizes, the count of
\* (USER_ADDRESS, topicHash(topic)) grows by exactly 1 and the record at
\* index count-1 has the stored content.
C9_FinalizedStoreAppendsOne ==
  [][\A k \in 1..Len(txs) :
       ( /\ pc = "Idle"
         /\ writeResult = WriteResult("tx", k)
         /\ txs[k].status = "pending"
         /\ txs'[k].status = "finalized" )
       => LET before == getMemoryCount(decision.topic.s, ledger, TRUE)
              after == getMemoryCount(decision.topic.s, ledger', TRUE)
              last == getMemory(decision.topic.s, after.value - 1, ledger', TRUE)
          IN /\ ~before.raised /\ ~after.raised
             /\ after.value = before.value + 1
             /\ ~last.raised
             /\ last.value.content = decision.summary.s
             /\ last.value.writer = account]_vars

C9_Witness ==
  /\ pc = "Idle"
  /\ writeResult.kind = "tx"
  /\ txs[writeResult.tx].status = "finalized"
  /\ decision.topic.s = "goals"
  /\ getMemoryCount("goals", ledger, TRUE).value = 2
  /\ getMemory("goals", 1, ledger, TRUE).value.timestamp = now

\* C10: getLatestMemory on a MemorySet nothing was ever appended to returns
\* null and never raises; such a topic adds nothing to the memories handed to
\* the reply and decision steps.
TopicsOf(ms) == {ms[k].topic : k \in 1..Len(ms)}
C11_ReadErrorDistinctFromAbsent ==
  \A j, k \in 1..Len(reads) :
     (~reads[j].ok /\ reads[k].ok /\ reads[k].answer.kind = "none")
       => reads[j].outcome # reads[k].outcome

\* C12: when a store finalizes, the MemorySet of the (owner, topic) it was
\* issued under grows by one record and the MemorySet of every other owner or
\* byte-distinct topic (a case variant included) is unchanged; the orchestrator,
\* the scanner, the HTTP service and the tools derive the same key from the
\* same topic string.
C12_TopicKeysIsolate ==
  [][\A k \in 1..Len(txs) :
       (txs[k].status = "pending" /\ txs'[k].status = "finalized") =>
          LET own == <<asked[k].owner, topicHash(asked[k].topic)>>
          IN /\ \A t \in TopicUniverse :
                  LET key == topicHash(t)
                  IN /\ topicHash2(t) = key
                     /\ topicHashServer(t) = key
                     /\ topicHashTools(t) = key
                     /\ t # asked[k].topic => key # own[2]
             /\ Len(ledger'[own]) = Len(ledger[own]) + 1
             /\ \A p \in DOMAIN ledger : p # own => ledger'[p] = ledger[p]]_vars

C12_Witness ==
  \E j, k \in 1..Len(txs) :
     /\ txs[j].status = "finalized" /\ txs[k].status = "finalized"
     /\ asked[j] = [owner |-> USER_ADDRESS, topic |-> "identity_profile"]
     /\ asked[k] = [owner |-> OtherUser, topic |-> "Preferences"]
     /\ Len(ledger[<<USER_ADDRESS, topicHash("identity_profile")>>]) = 1
     /\ Len(ledger[<<OtherUser, topicHash("Preferences")>>]) = 1
     /\ ledger[<<OtherUser, topicHash("preferences")>>] = <<>>
     /\ ledger[<<USER_ADDRESS, topicHash("Preferences")>>] = <<>>

\* C13: a POST /store-memory or POST /get-memory whose JSON body lacks a
\* required field is answered 400 with success = false, and the handler makes
\* no ledger call.
PostRoute == req.method = "POST" /\ req.path \in {"/store-memory", "/get-memory"}
Absent(v) == v.type = "undefined"
LacksField ==
  \/ Absent(req.body.user_address)
  \/ Absent(req.body.topic)
  \/ req.path = "/store-memory" /\ Absent(req.body.content)
FalsyField ==
  \/ ~Truthy(req.body.user_address)
  \/ ~Truthy(req.body.topic)
  \/ req.path = "/store-memory" /\ ~Truthy(req.body.content)
KnownRoute ==
  \/ req.method = "GET" /\ req.path = "/"
  \/ PostRoute
  \/ req.method = "OPTIONS"
C14_UnknownRouteIs404 ==
  (nreq > 0 /\ env.keyOk) =>
     /\ ~KnownRoute => resp.status = 404
     /\ resp.kind = "descriptor" => (req.method = "GET" /\ req.path = "/")

\* C15: the handler answers every request; a malformed PRIVATE_KEY, an
\* unparseable body on a POST route and a failed ledger read or write are each
\* answered 500 with success = false.
C15_AlwaysAnswers ==
  nreq > 0 =>
     /\ resp.status \in {200, 204, 400, 404, 500}
     /\ ( \/ ~env.keyOk
          \/ PostRoute /\ ~req.body.json
          \/ httpCalls # <<>> /\ ~env.ok )
        => /\ resp.status = 500
           /\ resp.success = JBool(FALSE)
           /\ resp.kind = "error"
     /\ resp.status = 500 => resp.success = JBool(FALSE)

C15_Witness ==
  /\ nreq = 2
  /\ PostRoute /\ req.path = "/store-memory"
  /\ env.keyOk /\ ~env.ok
  /\ Len(httpCalls) = 1
  /\ resp.status = 500
  /\ Len(txs) = 1

\* C16: an agent process started with a required credential, endpoint or
\* address missing (absent, empty or whitespace-only in every place it is
\* looked up) exits with a non-zero status, and has by then accepted no
\* utterance and made no ledger or language-model call.
Required(program) ==
  {"ANTHROPIC_API_KEY", "RPC_URL", "MEMORY_VAULT_ADDRESS", "USER_ADDRESS"}
    \cup (IF program = "agent-app" THEN {"AGENT_PRIVATE_KEY"} ELSE {})
Blank(v) == v.type = "undefined" \/ \A k \in 1..Len(v.c) : v.c[k] \in Whitespace
MissingConfig ==
  \E n \in Required(proc.program) : Blank(proc.environ[n].vars) /\ Blank(proc.environ[n].penv)
NothingDone ==
  /\ turn = 0 /\ sturn = 0
  /\ reads = <<>> /\ sreads = <<>> /\ results = <<>>
  /\ replyArg = NoArg /\ decideArg = NoArg /\ llmText = NoText
  /\ storeCalls = <<>> /\ txs = <<>> /\ out = <<>>
C16_MissingConfigExits ==
  MissingConfig =>
     /\ NothingDone
     /\ proc.status \in {"starting", "exited"}
     /\ (IF proc.program = "agent-app" THEN initialize(proc.environ)
         ELSE initialize2(proc.environ)).exit
     /\ proc.status = "exited" => proc.exitCode # 0

C16_Witness ==
  /\ proc.program = "agent-app"
  /\ proc.status = "exited"
  /\ proc.exitCode = 1
  /\ proc.environ["AGENT_PRIVATE_KEY"] = Held(JChars(<<" ", "\t">>), JUndef)
  /\ \A n \in EnvNames \ {"AGENT_PRIVATE_KEY"} : ~Blank(proc.environ[n].vars)

\* C17: a scan, once begun, reaches the point where fetchUserMemories has
\* returned, whichever count reads and record reads fail; an exception escapes
\* the scanner only after all known topics have been gone through.
C17_ScanCompletes ==
  /\ [](spc = "Crashed" => Len(sreads) = Len(knownTopics))
  /\ (spc \in {"Count", "Get"}) ~> (spc = "Reply" /\ Len(sreads) = Len(knownTopics))

C17_Witness ==
  /\ spc = "Reply"
  /\ \E j, k \in 1..Len(sreads) :
       /\ sreads[j].status = "failed" /\ sreads[j].n = 0
       /\ sreads[k].status = "failed" /\ sreads[k].n = 2
  /\ \E k \in 1..Len(sreads) : sreads[k].status = "ok" /\ sreads[k].n = 2

\* C18: the orchestrator's phase changes only along Idle, Reading, Replying,
\* Deciding, then Writing or Skipping, then Idle; so the reads of a turn come
\* before its reply, the reply before decide, and the store after decide.
PhaseOrder ==
  { <<"Idle", "Reading">>, <<"Reading", "Replying">>, <<"Replying", "Deciding">>,
    <<"Deciding", "Writing">>, <<"Deciding", "Skipping">>,
    <<"Writing", "Idle">>, <<"Skipping", "Idle">> }
C18_PhasesInOrder == [][pc' # pc => <<pc, pc'>> \in PhaseOrder]_vars

\* C19: an utterance is accepted only when every earlier turn has ended
\* (reported stored, failed or no store); a turn issues at most one store call,
\* and the orchestrator has submitted at most one store per utterance.
Ended(o) == Len(SelectSeq(o, LAMBDA n : n.kind \in {"stored", "failed", "no_store"}))
StoresReported(o) == Len(SelectSeq(o, LAMBDA n : n.kind \in {"stored", "failed"}))
C19_OneTurnInFlight ==
  /\ Ended(out) = IF pc = "Idle" THEN turn ELSE turn - 1
  /\ Len(storeCalls) <= 1
  /\ pc = "Writing" => storeCalls = <<>>
  /\ StoresReported(out) <= turn
  /\ Cardinality({k \in 1..Len(txs) : txs[k].writer = account}) <= turn

C19_Witness ==
  /\ turn = 2
  /\ pc = "Idle"
  /\ Len(txs) = 2
  /\ txs[1].writer = account /\ txs[2].writer = account
  /\ txs[1].status = "pending" /\ txs[2].status = "pending"
  /\ Len(storeCalls) = 1

\* C20: when the orchestrator and another agent (through the store_memory
\* tool) have each stored a record under the same owner and topic and both
\* transactions have finalized, the MemorySet holds both records at different
\* indices, in either order, and its count is the number of finalized stores.
HoldsRecordOf(set, tx) ==
  /\ tx.index < Len(set)
  /\ set[tx.index + 1].content = tx.content
  /\ set[tx.index + 1].writer = tx.writer
C20_ConcurrentStoresBothKept ==
  \A j, k \in 1..Len(txs) :
     ( /\ j < k
       /\ asked[j] = asked[k]
       /\ txs[j].writer # txs[k].writer
       /\ txs[j].status = "finalized" /\ txs[k].status = "finalized" )
     => LET set == ledger[<<asked[j].owner, topicHash(asked[j].topic)>>]
        IN /\ HoldsRecordOf(set, txs[j])
           /\ HoldsRecordOf(set, txs[k])
           /\ txs[j].index # txs[k].index
           /\ Len(set) = Cardinality({n \in 1..Len(txs) :
                                        asked[n] = asked[j] /\ txs[n].status = "finalized"})

C20_Witness ==
  /\ Len(txs) = 2
  /\ asked[1] = [owner |-> USER_ADDRESS, topic |-> "identity_profile"]
  /\ asked[2] = asked[1]
  /\ txs[1].writer = account /\ txs[2].writer = serviceAccount
  /\ txs[1].status = "finalized" /\ txs[2].status = "finalized"
  /\ txs[2].index = 0 /\ txs[1].index = 1
  /\ Len(ledger[<<USER_ADDRESS, topicHash("identity_profile")>>]) = 2

\* C21: every MemorySet is append-only: in every step its count does not
\* decrease and the records it held stay, unchanged, at their indices (the
\* MemorySet before the step is a prefix of the MemorySet after it).
C21_AppendOnly ==
  [][\A p \in DOMAIN ledger :
       /\ Len(ledger[p]) <= Len(ledger'[p])
       /\ SubSeq(ledger'[p], 1, Len(ledger[p])) = ledger[p]]_vars

C21_Witness ==
  LET set == ledger[<<USER_ADDRESS, topicHash("identity_profile")>>]
  IN /\ Len(set) = 2
     /\ set[1].writer = account /\ set[2].writer = serviceAccount
     /\ set[1].timestamp < set[2].timestamp
     /\ Len(ledger[<<USER_ADDRESS, topicHash("goals")>>]) = 1

\* C22: the scan result lists the topics in catalog order, and the records of
\* one topic are the records at indices 0, 1, 2, ... of its MemorySet, in that
\* order, none repeated and none skipped.
CatalogPosition(t) == CHOOSE k \in 1..Len(knownTopics) : knownTopics[k] = t
C22_TopicThenIndexOrder ==
  /\ \A a, b \in 1..Len(results) :
       a < b => CatalogPosition(results[a].topic) <= CatalogPosition(results[b].topic)
  /\ \A t \in {results[a].topic : a \in 1..Len(results)} :
       LET run == SelectSeq(results, LAMBDA m : m.topic = t)
           set == ledger[<<USER_ADDRESS, topicHash2(t)>>]
       IN /\ Len(run) <= Len(set)
          /\ \A j \in 1..Len(run) : run[j] = Memory(t, set[j])

C22_Witness ==
  /\ spc = "Reply"
  /\ Len(results) = 4
  /\ results[1].topic = "identity_profile" /\ results[2].topic = "identity_profile"
  /\ results[3].topic = "goals" /\ results[4].topic = "goals"
  /\ results[1].timestamp < results[2].timestamp

\* C23: a MemorySet changes only when a submitted store finalizes, and a
\* store is submitted by no step of the orchestrator outside Writing, by no
\* step of the scanner, and by no HTTP request other than POST /store-memory:
\* all these leave every MemorySet and the submitted transactions unchanged.
C23_OnlyStoreChangesLedger ==
  [][ /\ ledger' # ledger =>
           \E k \in 1..Len(txs) : txs[k].status = "pending" /\ txs'[k].status = "finalized"
      /\ (orchVars' # orchVars /\ pc # "Writing") => UNCHANGED ledgerVars
      /\ scanVars' # scanVars => UNCHANGED ledgerVars
      /\ (httpVars' # httpVars /\ ~(req'.method = "POST" /\ req'.path = "/store-memory"))
           => UNCHANGED ledgerVars ]_vars

C23_Witness ==
  /\ proc.program = "mcp-memory-vault"
  /\ req.method = "POST" /\ req.path = "/get-memory"
  /\ resp.status = 200 /\ resp.kind = "get"
  /\ Len(httpCalls) = 1
  /\ Len(txs) = 1 /\ txs[1].status = "finalized"
  /\ Len(ledger[<<USER_ADDRESS, topicHash("identity_profile")>>]) = 1

\* C24: every store the orchestrator issues names USER_ADDRESS as owner and
\* is signed by the agent's own account, which differs from USER_ADDRESS; the
\* record it appends sits in a MemorySet of USER_ADDRESS with the account as
\* writer, whatever the utterance and the Decision were.
C24_OwnerAndWriterFixed ==
  /\ account # USER_ADDRESS
  /\ \A n \in 1..Len(storeCalls) : storeCalls[n].user = USER_ADDRESS
  /\ \A n \in 1..Len(out) :
       out[n].kind = "stored" =>
          LET tx == txs[out[n].tx]
          IN /\ tx.user = USER_ADDRESS
             /\ tx.writer = account
             /\ tx.status = "finalized" =>
                  HoldsRecordOf(ledger[<<USER_ADDRESS, tx.topic>>], tx)
  /\ \A p \in DOMAIN ledger : \A j \in 1..Len(ledger[p]) :
       ledger[p][j].writer = account => p[1] = USER_ADDRESS

C24_Witness ==
  /\ \E n \in 1..Len(out) :
       /\ out[n].kind = "stored"
       /\ txs[out[n].tx].status = "finalized"
       /\ asked[out[n].tx].topic = "goals"
  /\ ledger[<<USER_ADDRESS, topicHash("goals")>>][1].writer = account
  /\ Len(ledger[<<OtherUser, topicHash("identity_profile")>>]) = 1
  /\ ledger[<<OtherUser, topicHash("identity_profile")>>][1].writer = serviceAccount

\* C25: when a turn's Reading phase has run without a read failure on the
\* ledger as it stands, every record the orchestrator stored in an earlier
\* turn that has finalized and is still the last of its MemorySet is among the
\* memories retrieved, under the topic it was stored under.
ReadingSawLedger ==
  /\ pc = "Replying"
  /\ Len(reads) = Len(topics)
  /\ \A j \in 1..Len(reads) :
       /\ reads[j].ok
       /\ reads[j].answer = LedgerGetLatestMemory(ledger, USER_ADDRESS, topicHash(reads[j].topic))
Recalled(k) ==
  \E n \in 1..Len(memories) :
     /\ memories[n].topic = asked[k].topic
     /\ memories[n].content = txs[k].content
     /\ memories[n].writer = account
C25_StoredFactRecalled ==
  ReadingSawLedger =>
     \A k \in 1..Len(txs) :
        ( /\ txs[k].writer = account
          /\ txs[k].status = "finalized"
          /\ Len(ledger[<<USER_ADDRESS, txs[k].topic>>]) = txs[k].index + 1 )
        => Recalled(k)

\* C26: while other agents append, the index the scan is about to read is
\* below the current count of the topic's MemorySet (the read cannot be out
\* of range), and the records the scan holds for each topic are a prefix of
\* that MemorySet, in every state up to and after the end of the scan.
IsPrefixOfSet(run, t) ==
  LET set == ledger[<<USER_ADDRESS, topicHash2(t)>>]
  IN /\ Len(run) <= Len(set)
     /\ run = [j \in 1..Len(run) |-> Memory(t, set[j])]
C26_ScanWithinCount ==
  /\ spc = "Get" =>
       /\ i < count
       /\ count <= Len(ledger[<<USER_ADDRESS, topicHash2(knownTopics[si])>>])
       /\ ~getMemory(knownTopics[si], i, ledger, TRUE).raised
  /\ \A t \in {results[a].topic : a \in 1..Len(results)} : IsPrefixOfSet(TopicRun(t), t)

C26_Witness ==
  /\ spc = "Get"
  /\ si = 1 /\ i = 1 /\ count = 2
  /\ Len(results) = 1
  /\ Len(ledger[<<USER_ADDRESS, topicHash("identity_profile")>>]) = 3
  /\ ledger[<<USER_ADDRESS, topicHash("identity_profile")>>][3].content = "B"

\* C27: on one ledger state and with no failed read on either side, every
\* memory the orchestrator holds at the end of its Reading phase is in the
\* read-only agent's finished scan result, under the same topic: every
\* candidate topic is in the catalog and both agents derive the same key.
ReadingDone == pc = "Replying" /\ \A k \in 1..Len(reads) : reads[k].ok
ScanDone == spc = "Reply" /\ \A k \in 1..Len(sreads) : sreads[k].status = "ok"
C27_AgentsAgree ==
  (ReadingDone /\ ScanDone) =>
     /\ \A k \in 1..Len(memories) :
          \E r \in 1..Len(results) :
             results[r] = memories[k] /\ results[r].topic = memories[k].topic
     /\ \A t \in Range(topics) :
          t \in Range(knownTopics) /\ topicHash2(t) = topicHash(t)

C27_Witness ==
  /\ ReadingDone /\ ScanDone
  /\ Len(memories) = 2
  /\ memories[1].topic = "identity_profile" /\ memories[1].content = "B"
  /\ memories[2].topic = "preferences"
  /\ Len(results) > Len(memories)

====
